---- MODULE Spec2Model ----
(***************************************************************************)
(* A model of the law-backend repository: the MongoDB -> Supabase copy     *)
(* job (migrateData / migrateSubscribers / convertDocumentToSupabaseFormat),*)
(* the article query routes (mongoose and supabase variants) and the       *)
(* start-up of the scripts (environment checks, app.listen).               *)
(*                                                                         *)
(* JavaScript values are tagged records; strings are sequences of          *)
(* one-character strings so that substring, case folding and pattern       *)
(* matching are computed, not assumed.                                     *)
(***************************************************************************)
EXTENDS Integers, Sequences, FiniteSets, TLC

VARIABLES
  \* ---- conversion harness (pure functions of the copy job) ----
  cdoc,       \* a source article document handed to convertDocumentToSupabaseFormat
  cout,       \* its result (a destination record, Throw, or NotRun)
  sdoc,       \* a source subscriber document
  sout        \* the result of the subscriber mapping

VARIABLES
  \* ---- the copy job (one process running the migration script) ----
  pc,                  \* the await the script is suspended at
  srcCollections,      \* names of the collections in the MongoDB database
  srcArticles,         \* documents of the source 'articles' collection
  srcSubscribers,      \* documents of the source 'subscribers' collection
  clock,               \* last Date.now() reading
  collections,         \* migrateData: const collections
  supabaseArticles,    \* migrateData: const supabaseArticles
  i,                   \* migrateData: loop index
  successCount,        \* migrateData: let successCount
  errorCount,          \* migrateData: let errorCount
  supabaseSubscribers, \* migrateSubscribers: const supabaseSubscribers
  subI,                \* migrateSubscribers: loop index i
  subSuccessCount,     \* migrateSubscribers: let successCount
  subErrorCount,       \* migrateSubscribers: let errorCount
  trace,               \* log lines, store calls and timer expiries, in order
  destArticles,        \* rows of the destination 'articles' table
  destSubscribers,     \* rows of the destination 'subscribers' table
  rerun,               \* TRUE once the script has been launched a second time
  firstRunDest         \* destination tables as the first run left them

VARIABLES
  \* ---- the article routes (one request at a time, stateless) ----
  store,      \* rows of the article store the routes read
  req,        \* the last request served
  res,        \* its response
  queries     \* the store queries the handler issued for it, in order

VARIABLES
  \* ---- process start-up (module evaluation of a script) ----
  program,    \* the script node was started with
  env,        \* names of the environment variables that are set
  boot        \* how far the evaluation of the script's modules has come

convVars == <<cdoc, cout, sdoc, sout>>

srcVars == <<srcCollections, srcArticles, srcSubscribers>>

articleLocals == <<collections, supabaseArticles, i, successCount, errorCount>>

subscriberLocals == <<supabaseSubscribers, subI, subSuccessCount, subErrorCount>>

destVars == <<destArticles, destSubscribers>>

migVars == <<pc, srcVars, clock, articleLocals, subscriberLocals, trace,
             destVars, rerun, firstRunDest>>

queryVars == <<store, req, res, queries>>

bootVars == <<program, env, boot>>

vars == <<convVars, migVars, queryVars, bootVars>>

(***************************************************************************)
(* Bounds                                                                  *)
(***************************************************************************)
MaxOverrides == 1      \* fields set besides `title` in a harness document
MaxContentLen == 152   \* longest content string tried
MaxNow == 2            \* Date.now() readings are 1..MaxNow
MaxRnd == 1            \* Math.floor(Math.random()*1000) readings are 0..MaxRnd

(***************************************************************************)
(* JavaScript values                                                       *)
(***************************************************************************)
Undefined == [t |-> "undefined"]
Null == [t |-> "null"]
Str(s) == [t |-> "string", v |-> s]
Num(n) == [t |-> "number", v |-> n]
Bool(b) == [t |-> "boolean", v |-> b]
Arr(a) == [t |-> "array", v |-> a]
Oid(n) == [t |-> "objectid", v |-> n]
DateV(n) == [t |-> "date", v |-> n]

\* the number NaN
NaN == [t |-> "nan"]

Throw == [t |-> "throw"]
NotRun == [t |-> "notrun"]

\* JavaScript truthiness, as used by `a || b` and `c ? x : y`.
Truthy(x) ==
  CASE x.t = "undefined" -> FALSE
    [] x.t = "null" -> FALSE
    [] x.t = "string" -> x.v # <<>>
    [] x.t = "number" -> x.v # 0
    [] x.t = "boolean" -> x.v
    [] x.t = "nan" -> FALSE
    [] OTHER -> TRUE

\* a || b
OrElse(a, b) == IF Truthy(a) THEN a ELSE b

Min(a, b) == IF a < b THEN a ELSE b

DigitChar(d) == <<"0", "1", "2", "3", "4", "5", "6", "7", "8", "9">>[d + 1]

RECURSIVE Digits(_)
\* decimal rendering of a natural number, as template literals render it
Digits(n) == IF n < 10 THEN <<DigitChar(n)>>
             ELSE Digits(n \div 10) \o <<DigitChar(n % 10)>>

RECURSIVE ToStringChars(_)
RECURSIVE JoinChars(_)
\* Array.prototype.toString: the elements' strings joined by commas
JoinChars(a) ==
  IF a = <<>> THEN <<>>
  ELSE IF Len(a) = 1 THEN ToStringChars(a[1])
  ELSE ToStringChars(a[1]) \o <<",">> \o JoinChars(Tail(a))

\* value.toString() / string concatenation rendering of a value
ToStringChars(x) ==
  CASE x.t = "string" -> x.v
    [] x.t = "number" -> Digits(x.v)
    [] x.t = "boolean" -> IF x.v THEN <<"t", "r", "u", "e">>
                          ELSE <<"f", "a", "l", "s", "e">>
    [] x.t = "array" -> JoinChars(x.v)
    [] x.t = "objectid" -> <<"o", "i", "d">> \o Digits(x.v)
    [] x.t = "date" -> <<"d", "a", "t", "e">> \o Digits(x.v)
    [] x.t = "undefined" -> <<"u", "n", "d", "e", "f", "i", "n", "e", "d">>
    [] OTHER -> <<"n", "u", "l", "l">>

Ellipsis == <<".", ".", ".">>
sUnknown == <<"U", "n", "k", "n", "o", "w", "n">>
sUncategorized == <<"U", "n", "c", "a", "t", "e", "g", "o", "r", "i", "z", "e", "d">>
sActive == <<"a", "c", "t", "i", "v", "e">>
sArticleDash == <<"a", "r", "t", "i", "c", "l", "e", "-">>

(***************************************************************************)
(* convertDocumentToSupabaseFormat                                         *)
(***************************************************************************)
ExcerptLen == 150

ArticleFields ==
  {"_id", "title", "slug", "author", "published_date", "content", "excerpt",
   "category", "subcategory", "tags", "source", "image", "imageCaption",
   "image_caption", "imageAlt", "image_alt", "imageCredit", "image_credit",
   "pdf_url", "author_bio", "is_featured"}

\* `article-${Date.now()}-${Math.floor(Math.random() * 1000)}`
GeneratedSlug(now, rnd) == Str(sArticleDash \o Digits(now) \o <<"-">> \o Digits(rnd))

\* content.substring(0, 150)
Substring150(s) == SubSeq(s, 1, Min(ExcerptLen, Len(s)))

\* doc.content?.substring(0, 150) + '...' : optional chaining yields undefined
\* for null/undefined content, and undefined + '...' is the string "undefined..."
ContentExcerpt(content) ==
  IF content.t \in {"undefined", "null"}
  THEN Str(ToStringChars(Undefined) \o Ellipsis)
  ELSE Str(Substring150(content.v) \o Ellipsis)

\* a non-string, non-nullish content has no substring method: TypeError,
\* unless doc.excerpt is truthy and short-circuits the expression
ConvertThrows(doc) ==
  /\ ~Truthy(doc.excerpt)
  /\ doc.content.t \notin {"undefined", "null", "string"}

\* doc.excerpt || doc.content?.substring(0, 150) + '...' || ''
ExcerptOf(doc) ==
  OrElse(doc.excerpt, OrElse(ContentExcerpt(doc.content), Str(<<>>)))

convertDocumentToSupabaseFormat(doc, now, rnd) ==
  IF ConvertThrows(doc) THEN Throw
  ELSE
    [ title |-> OrElse(doc.title, Str(<<>>)),
      slug |-> OrElse(doc.slug, GeneratedSlug(now, rnd)),
      author |-> OrElse(doc.author, Str(sUnknown)),
      published_date |-> OrElse(doc.published_date, DateV(now)),
      content |-> OrElse(doc.content, Str(<<>>)),
      excerpt |-> ExcerptOf(doc),
      category |-> OrElse(doc.category, Str(sUncategorized)),
      subcategory |-> OrElse(doc.subcategory, Null),
      tags |-> IF doc.tags.t = "array" THEN doc.tags ELSE Arr(<<>>),
      source |-> OrElse(doc.source, Null),
      image |-> OrElse(doc.image, Null),
      image_caption |-> OrElse(doc.imageCaption, OrElse(doc.image_caption, Null)),
      image_alt |-> OrElse(doc.imageAlt, OrElse(doc.image_alt, Null)),
      image_credit |-> OrElse(doc.imageCredit, OrElse(doc.image_credit, Null)),
      pdf_url |-> OrElse(doc.pdf_url, Null),
      author_bio |-> OrElse(doc.author_bio, Null),
      is_featured |-> OrElse(doc.is_featured, Bool(FALSE)),
      mongo_id |-> IF Truthy(doc._id) THEN Str(ToStringChars(doc._id)) ELSE Null ]

SubscriberFields == {"_id", "email", "subscribed_at", "created_at", "status"}

\* the mapping of migrateSubscribers
convertSubscriber(doc, now) ==
  [ email |-> doc.email,
    subscribed_at |-> OrElse(doc.subscribed_at, OrElse(doc.created_at, DateV(now))),
    status |-> OrElse(doc.status, Str(sActive)),
    mongo_id |-> IF Truthy(doc._id) THEN Str(ToStringChars(doc._id)) ELSE Null ]

EmptyArticleDoc == [f \in ArticleFields |-> Undefined]
TitleOnlyDoc == [EmptyArticleDoc EXCEPT !["title"] = Str(<<"T">>)]
EmptySubscriberDoc == [f \in SubscriberFields |-> Undefined]

Nows == 1..MaxNow
Rnds == 0..MaxRnd

NoRequest == [route |-> "none", variant |-> "none", param |-> <<>>]
NoResponse == [status |-> 0, body |-> <<>>]

QueryIdle ==
  /\ store = {}
  /\ req = NoRequest
  /\ res = NoResponse
  /\ queries = <<>>

\* the variables process.env is read for
EnvNames == {"MONGODB_URI", "SUPABASE_URL", "SUPABASE_KEY", "SUPABASE_SERVICE_KEY"}

\* a process whose modules have been evaluated with every variable set
BootIdle ==
  /\ program = "none"
  /\ env = EnvNames
  /\ boot = "done"

ConvertIdle ==
  /\ cdoc = TitleOnlyDoc
  /\ sdoc = EmptySubscriberDoc
  /\ cout = NotRun
  /\ sout = NotRun

(***************************************************************************)
(* The copy job: source and destination stores                             *)
(***************************************************************************)
MaxArticles == 21      \* most documents in a bulk 'articles' collection
MaxSubscribers == 21   \* most documents in a bulk 'subscribers' collection
MaxSmall == 2          \* most documents in a hand-picked small collection

Range(s) == {s[k] : k \in 1..Len(s)}

\* Array.prototype.slice(from, to) with 0-based, end-exclusive indices
Slice(s, from, to) == SubSeq(s, from + 1, Min(to, Len(s)))

CeilDiv(n, d) == (n + d - 1) \div d

ArticleBatchSize == 10
SubscriberBatchSize == 20

\* options of the two upsert calls
ArticleOnConflict == "slug"
ArticleIgnoreDuplicatesSet == TRUE
ArticleIgnoreDuplicates == FALSE
SubscriberOnConflict == "email"
SubscriberIgnoreDuplicates == TRUE

\* ON CONFLICT (key) DO NOTHING, row by row in batch order: a row is
\* inserted unless the table or an earlier row of the batch holds its key
InsertMissing(dest, batch, key) ==
  dest \cup {batch[k] : k \in {n \in 1..Len(batch) :
                                 /\ \A x \in dest : x[key] # batch[n][key]
                                 /\ \A j \in 1..(n - 1) : batch[j][key] # batch[n][key]}}

\* supabase .upsert(batch, { onConflict: key, ignoreDuplicates }) when the
\* store accepts the batch: rows are keyed by `key`; a conflicting row is
\* skipped (ignoreDuplicates) or replaced by the batch row
Upsert(dest, batch, key, ignoreDuplicates) ==
  IF ignoreDuplicates
  THEN InsertMissing(dest, batch, key)
  ELSE {x \in dest : \A k \in 1..Len(batch) : batch[k][key] # x[key]}
         \cup Range(batch)

\* a batch that would update one row twice is rejected by the store
\* (ON CONFLICT DO UPDATE cannot affect a row a second time)
UpsertAccepts(batch, key, ignoreDuplicates) ==
  \/ ignoreDuplicates
  \/ \A j, k \in 1..Len(batch) : batch[j][key] = batch[k][key] => j = k

\* documents of a bulk collection: complete, distinct keys
BulkArticle(k) ==
  [EmptyArticleDoc EXCEPT !["_id"] = Oid(k), !["title"] = Str(<<"T">>),
                          !["slug"] = Str(<<"s">> \o Digits(k)),
                          !["published_date"] = DateV(k),
                          !["content"] = Str(<<"c">>)]
BulkSubscriber(k) ==
  [EmptySubscriberDoc EXCEPT !["_id"] = Oid(k),
                             !["email"] = Str(<<"e">> \o Digits(k)),
                             !["subscribed_at"] = DateV(k)]

BulkArticles(n) == [k \in 1..n |-> BulkArticle(k)]
BulkSubscribers(n) == [k \in 1..n |-> BulkSubscriber(k)]

\* hand-picked documents: a slug shared by two documents, a document with
\* neither slug nor published_date, an e-mail shared by two subscribers
SmallArticleDocs ==
  { [EmptyArticleDoc EXCEPT !["_id"] = Oid(1), !["title"] = Str(<<"T">>),
                            !["slug"] = Str(<<"a">>), !["published_date"] = DateV(1)],
    [EmptyArticleDoc EXCEPT !["_id"] = Oid(2), !["title"] = Str(<<"U">>),
                            !["slug"] = Str(<<"a">>), !["published_date"] = DateV(1)],
    [EmptyArticleDoc EXCEPT !["_id"] = Oid(3), !["title"] = Str(<<"V">>)] }
SmallSubscriberDocs ==
  { [EmptySubscriberDoc EXCEPT !["_id"] = Oid(1), !["email"] = Str(<<"x">>),
                               !["subscribed_at"] = DateV(1)],
    [EmptySubscriberDoc EXCEPT !["_id"] = Oid(2), !["email"] = Str(<<"x">>),
                               !["subscribed_at"] = DateV(1),
                               !["status"] = Str(<<"p">>)] }

\* sequences without repetition of at most n elements of S
InjectiveSeqs(S, n) ==
  UNION {{s \in [1..m -> S] : \A j, k \in 1..m : s[j] = s[k] => j = k} : m \in 0..n}

\* rows already in the destination before the job runs
OldArticleRow ==
  convertDocumentToSupabaseFormat(
    [EmptyArticleDoc EXCEPT !["_id"] = Oid(9), !["title"] = Str(<<"O">>),
                            !["slug"] = Str(<<"a">>), !["published_date"] = DateV(1)],
    1, 0)
OldSubscriberRow ==
  convertSubscriber(
    [EmptySubscriberDoc EXCEPT !["_id"] = Oid(9), !["email"] = Str(<<"x">>),
                               !["subscribed_at"] = DateV(1),
                               !["status"] = Str(<<"o">>)], 1)

(***************************************************************************)
(* The copy job: trace entries                                             *)
(***************************************************************************)
\* a log() that formats the line and appends nothing
LogDropped(m, n, k) == [e |-> "dropped", m |-> m, n |-> n, k |-> k]

\* log(message): one line appended to the log file
Log(m, n, k) == [e |-> "log", m |-> m, n |-> n, k |-> k]
\* a call issued (e = "call") to a store or timer m, or its answer:
\* fulfilled with data ("ok"), fulfilled with an error object ("error"),
\* rejected ("throw"); n is the batch's first index
Ev(e, m, n) == [e |-> e, m |-> m, n |-> n, k |-> 0]

OutcomeKind(outcome) == IF outcome = "error_details" THEN "error" ELSE outcome

LocalsInit ==
  /\ collections = {}
  /\ supabaseArticles = <<>>
  /\ i = 0
  /\ successCount = 0
  /\ errorCount = 0
  /\ supabaseSubscribers = <<>>
  /\ subI = 0
  /\ subSuccessCount = 0
  /\ subErrorCount = 0

MigrationIdle ==
  /\ pc = "start"
  /\ srcCollections = {}
  /\ srcArticles = <<>>
  /\ srcSubscribers = <<>>
  /\ clock = 1
  /\ LocalsInit
  /\ trace = <<>>
  /\ destArticles = {}
  /\ destSubscribers = {}
  /\ rerun = FALSE
  /\ firstRunDest = NotRun

\* one run of the script over a bulk source, destination empty
Init ==
  /\ ConvertIdle
  /\ QueryIdle
  /\ BootIdle
  /\ pc = "start"
  /\ srcCollections \in SUBSET {"articles", "subscribers"}
  /\ \E n \in 0..MaxArticles :
       /\ ("articles" \notin srcCollections => n = 0)
       /\ srcArticles = BulkArticles(n)
  /\ \E n \in 0..MaxSubscribers :
       /\ ("subscribers" \notin srcCollections => n = 0)
       /\ srcSubscribers = BulkSubscribers(n)
  /\ clock = 1
  /\ LocalsInit
  /\ trace = <<>>
  /\ destArticles = {}
  /\ destSubscribers = {}
  /\ rerun = FALSE
  /\ firstRunDest = NotRun

\* runs of the script over a small hand-picked source, destination empty or
\* holding rows with the same keys as source documents
InitSmall ==
  /\ ConvertIdle
  /\ QueryIdle
  /\ BootIdle
  /\ pc = "start"
  /\ srcCollections = {"articles", "subscribers"}
  /\ srcArticles \in InjectiveSeqs(SmallArticleDocs, MaxSmall)
  /\ srcSubscribers \in InjectiveSeqs(SmallSubscriberDocs, MaxSmall)
  /\ clock = 1
  /\ LocalsInit
  /\ trace = <<>>
  /\ \/ destArticles = {} /\ destSubscribers = {}
     \/ destArticles = {OldArticleRow} /\ destSubscribers = {OldSubscriberRow}
  /\ rerun = FALSE
  /\ firstRunDest = NotRun

(***************************************************************************)
(* The copy job: migrateData and migrateSubscribers, one action per        *)
(* resumption of the script after an await                                 *)
(***************************************************************************)
\* a counter that is assigned (=) where it should be added to (+=)
AddBatchAssigns(count, batch) == Len(batch)

\* a counter that counts batches instead of records
AddBatchCountsOne(count, batch) == count + 1

\* successCount += batch.length / errorCount += batch.length
AddBatch(count, batch) == count + Len(batch)

\* i += batchSize
NextIndex(idx, batchSize) == idx + batchSize

\* Math.floor(i / batchSize) + 1
BatchNumber(idx, batchSize) == idx \div batchSize + 1

\* finally { await mongoClient.close(); ... }
Finally(tr) ==
  /\ trace' = Append(tr, Ev("call", "close", 0))
  /\ pc' = "awaitClose"

\* a return that leaves the process without running the finally block
ReturnEarlySkipsFinally(tr) ==
  /\ trace' = tr
  /\ pc' = "exited"

\* a return statement inside the try block of migrateData
ReturnEarly(tr) == Finally(tr)

\* catch (error) of migrateData, followed by its finally
CatchOuter(tr) ==
  Finally(tr \o <<Log("migration_error", 0, 0), Log("stack", 0, 0)>>)

\* the call of migrateSubscribers up to its first await
StartSubscribers(tr) ==
  /\ trace' = tr \o <<Log("sub_starting", 0, 0), Ev("call", "find_subscribers", 0)>>
  /\ pc' = "awaitSubFind"

\* what follows the article loop
AfterLoop(tr) ==
  IF "subscribers" \in collections THEN StartSubscribers(tr) ELSE Finally(tr)

\* the loop test of `for (let i = 0; i < supabaseArticles.length; i += batchSize)`
\* and what follows it up to the next await
LoopHead(tr, list, idx, sc, ec) ==
  IF idx < Len(list)
  THEN /\ trace' = tr \o <<Log("processing", BatchNumber(idx, ArticleBatchSize),
                               CeilDiv(Len(list), ArticleBatchSize)),
                           Ev("call", "upsert_articles", idx)>>
       /\ pc' = "awaitUpsert"
  ELSE AfterLoop(Append(tr, Log("completed", sc, ec)))

\* the same for the loop of migrateSubscribers
SubLoopHead(tr, list, idx, sc, ec) ==
  IF idx < Len(list)
  THEN /\ trace' = tr \o <<Log("sub_processing", BatchNumber(idx, SubscriberBatchSize),
                               CeilDiv(Len(list), SubscriberBatchSize)),
                           Ev("call", "upsert_subscribers", idx)>>
       /\ pc' = "awaitSubUpsert"
  ELSE Finally(Append(tr, Log("sub_completed", sc, ec)))

\* the script is launched: migrateData() runs up to `await mongoClient.connect()`
Start ==
  /\ pc = "start"
  /\ trace' = trace \o <<Log("starting", 0, 0), Log("connecting", 0, 0),
                         Ev("call", "connect", 0)>>
  /\ pc' = "awaitConnect"
  /\ UNCHANGED <<convVars, queryVars, bootVars, srcVars, clock, articleLocals, subscriberLocals,
                 destVars, rerun, firstRunDest>>

ConnectReturns ==
  /\ pc = "awaitConnect"
  /\ \E ok \in BOOLEAN :
       IF ok
       THEN /\ trace' = trace \o <<Ev("ok", "connect", 0),
                                   Log("connected", 0, 0),
                                   Ev("call", "listCollections", 0)>>
            /\ pc' = "awaitList"
       ELSE CatchOuter(Append(trace, Ev("throw", "connect", 0)))
  /\ UNCHANGED <<convVars, queryVars, bootVars, srcVars, clock, articleLocals, subscriberLocals,
                 destVars, rerun, firstRunDest>>

ListReturns ==
  /\ pc = "awaitList"
  /\ \E ok \in BOOLEAN :
       IF ok
       THEN LET tr == trace \o <<Ev("ok", "listCollections", 0),
                                 Log("found_collections", Cardinality(srcCollections), 0)>>
            IN /\ collections' = srcCollections
               /\ IF "articles" \notin srcCollections
                  THEN ReturnEarly(Append(tr, Log("no_articles_collection", 0, 0)))
                  ELSE /\ trace' = Append(tr, Ev("call", "find_articles", 0))
                       /\ pc' = "awaitFindArticles"
       ELSE /\ collections' = collections
            /\ CatchOuter(Append(trace, Ev("throw", "listCollections", 0)))
  /\ UNCHANGED <<convVars, queryVars, bootVars, srcVars, clock, supabaseArticles, i, successCount,
                 errorCount, subscriberLocals, destVars, rerun, firstRunDest>>

\* documents whose conversion reads the clock or the random generator
NeedsEnv(docs) ==
  {k \in 1..Len(docs) : ~Truthy(docs[k].slug) \/ ~Truthy(docs[k].published_date)}

NonDecreasing(ts) == \A j, k \in DOMAIN ts : j < k => ts[j] <= ts[k]

LastReading(ts, start) ==
  IF DOMAIN ts = {} THEN start
  ELSE ts[CHOOSE k \in DOMAIN ts : \A j \in DOMAIN ts : j <= k]

\* articles.map(convertDocumentToSupabaseFormat) with the given readings
MapArticles(docs, ts, rs) ==
  [k \in 1..Len(docs) |->
     IF k \in DOMAIN ts
     THEN convertDocumentToSupabaseFormat(docs[k], ts[k], rs[k])
     ELSE convertDocumentToSupabaseFormat(docs[k], 1, 0)]

FindArticlesReturns ==
  /\ pc = "awaitFindArticles"
  /\ \E ok \in BOOLEAN :
       IF ~ok
       THEN /\ CatchOuter(Append(trace, Ev("throw", "find_articles", 0)))
            /\ UNCHANGED <<clock, supabaseArticles, i, successCount, errorCount>>
       ELSE LET n == Len(srcArticles)
                tr == trace \o <<Ev("ok", "find_articles", 0),
                                 Log("found_articles", n, 0)>>
            IN IF n = 0
               THEN /\ ReturnEarly(Append(tr, Log("no_articles", 0, 0)))
                    /\ UNCHANGED <<clock, supabaseArticles, i, successCount, errorCount>>
               ELSE \E ts \in [NeedsEnv(srcArticles) -> clock..MaxNow],
                       rs \in [NeedsEnv(srcArticles) -> Rnds] :
                      /\ NonDecreasing(ts)
                      /\ clock' = LastReading(ts, clock)
                      /\ LET converted == MapArticles(srcArticles, ts, rs)
                         IN IF \E k \in 1..n : converted[k] = Throw
                            THEN /\ CatchOuter(tr)
                                 /\ UNCHANGED <<supabaseArticles, i, successCount,
                                                errorCount>>
                            ELSE /\ supabaseArticles' = converted
                                 /\ i' = 0
                                 /\ successCount' = 0
                                 /\ errorCount' = 0
                                 /\ LoopHead(Append(tr, Log("converted", n, 0)),
                                             converted, 0, 0, 0)
  /\ UNCHANGED <<convVars, queryVars, bootVars, srcVars, collections, subscriberLocals, destVars,
                 rerun, firstRunDest>>

\* const batch = supabaseArticles.slice(i, i + batchSize)
\* slice(i, batchSize): the batch size taken for the end index
ArticleBatchEndIsSize == Slice(supabaseArticles, i, ArticleBatchSize)

\* const batch = supabaseArticles.slice(i, i + batchSize)
ArticleBatch == Slice(supabaseArticles, i, i + ArticleBatchSize)

\* the article upsert answers: data, an error object (with or without
\* details), or a rejected promise
UpsertReturns ==
  /\ pc = "awaitUpsert"
  /\ \E outcome \in {"ok", "error", "error_details", "throw"} :
       LET batch == ArticleBatch
           no == BatchNumber(i, ArticleBatchSize)
           tr == Append(trace, Ev(OutcomeKind(outcome), "upsert_articles", i))
       IN CASE outcome = "ok" ->
                 /\ UpsertAccepts(batch, ArticleOnConflict, ArticleIgnoreDuplicates)
                 /\ destArticles' = Upsert(destArticles, batch, ArticleOnConflict,
                                           ArticleIgnoreDuplicates)
                 /\ successCount' = AddBatch(successCount, batch)
                 /\ trace' = tr \o <<Log("batch_ok", Len(batch), 0),
                                     Ev("call", "timer", 500)>>
                 /\ pc' = "awaitDelay"
                 /\ UNCHANGED <<i, errorCount>>
            [] outcome \in {"error", "error_details"} ->
                 /\ errorCount' = AddBatch(errorCount, batch)
                 /\ trace' = tr \o <<Log("batch_error", no, 0)>>
                                \o (IF outcome = "error_details"
                                    THEN <<Log("error_details", no, 0)>> ELSE <<>>)
                                \o <<Ev("call", "timer", 500)>>
                 /\ pc' = "awaitDelay"
                 /\ UNCHANGED <<i, successCount, destArticles>>
            [] OTHER ->
                 /\ errorCount' = AddBatch(errorCount, batch)
                 /\ i' = NextIndex(i, ArticleBatchSize)
                 /\ LoopHead(tr \o <<Log("batch_exception", no, 0), Log("stack", no, 0)>>,
                             supabaseArticles, NextIndex(i, ArticleBatchSize),
                             successCount, AddBatch(errorCount, batch))
                 /\ UNCHANGED <<successCount, destArticles>>
  /\ UNCHANGED <<convVars, queryVars, bootVars, srcVars, clock, collections, supabaseArticles,
                 subscriberLocals, destSubscribers, rerun, firstRunDest>>

\* await new Promise(resolve => setTimeout(resolve, 500)) in the article loop
DelayElapses ==
  /\ pc = "awaitDelay"
  /\ i' = NextIndex(i, ArticleBatchSize)
  /\ LoopHead(Append(trace, Ev("ok", "timer", 500)), supabaseArticles,
              NextIndex(i, ArticleBatchSize), successCount, errorCount)
  /\ UNCHANGED <<convVars, queryVars, bootVars, srcVars, clock, collections, supabaseArticles,
                 successCount, errorCount, subscriberLocals, destVars, rerun,
                 firstRunDest>>

\* subscriber documents whose mapping reads the clock
SubNeedsEnv(docs) ==
  {k \in 1..Len(docs) :
     ~Truthy(docs[k].subscribed_at) /\ ~Truthy(docs[k].created_at)}

MapSubscribers(docs, ts) ==
  [k \in 1..Len(docs) |->
     IF k \in DOMAIN ts THEN convertSubscriber(docs[k], ts[k])
     ELSE convertSubscriber(docs[k], 1)]

SubFindReturns ==
  /\ pc = "awaitSubFind"
  /\ \E ok \in BOOLEAN :
       IF ~ok
       THEN /\ Finally(trace \o <<Ev("throw", "find_subscribers", 0),
                                  Log("sub_migration_error", 0, 0)>>)
            /\ UNCHANGED <<clock, subscriberLocals>>
       ELSE LET n == Len(srcSubscribers)
                tr == trace \o <<Ev("ok", "find_subscribers", 0),
                                 Log("found_subscribers", n, 0)>>
            IN IF n = 0
               THEN /\ Finally(Append(tr, Log("no_subscribers", 0, 0)))
                    /\ UNCHANGED <<clock, subscriberLocals>>
               ELSE \E ts \in [SubNeedsEnv(srcSubscribers) -> clock..MaxNow] :
                      /\ NonDecreasing(ts)
                      /\ clock' = LastReading(ts, clock)
                      /\ supabaseSubscribers' = MapSubscribers(srcSubscribers, ts)
                      /\ subI' = 0
                      /\ subSuccessCount' = 0
                      /\ subErrorCount' = 0
                      /\ SubLoopHead(tr, MapSubscribers(srcSubscribers, ts), 0, 0, 0)
  /\ UNCHANGED <<convVars, queryVars, bootVars, srcVars, articleLocals, destVars, rerun, firstRunDest>>

SubscriberBatch == Slice(supabaseSubscribers, subI, subI + SubscriberBatchSize)

SubUpsertReturns ==
  /\ pc = "awaitSubUpsert"
  /\ \E outcome \in {"ok", "error", "throw"} :
       LET batch == SubscriberBatch
           no == BatchNumber(subI, SubscriberBatchSize)
           tr == Append(trace, Ev(OutcomeKind(outcome), "upsert_subscribers", subI))
       IN CASE outcome = "ok" ->
                 /\ UpsertAccepts(batch, SubscriberOnConflict, SubscriberIgnoreDuplicates)
                 /\ destSubscribers' = Upsert(destSubscribers, batch,
                                              SubscriberOnConflict,
                                              SubscriberIgnoreDuplicates)
                 /\ subSuccessCount' = AddBatch(subSuccessCount, batch)
                 /\ trace' = tr \o <<Log("sub_batch_ok", Len(batch), 0),
                                     Ev("call", "timer", 500)>>
                 /\ pc' = "awaitSubDelay"
                 /\ UNCHANGED <<subI, subErrorCount>>
            [] outcome = "error" ->
                 /\ subErrorCount' = AddBatch(subErrorCount, batch)
                 /\ trace' = tr \o <<Log("sub_batch_error", no, 0),
                                     Ev("call", "timer", 500)>>
                 /\ pc' = "awaitSubDelay"
                 /\ UNCHANGED <<subI, subSuccessCount, destSubscribers>>
            [] OTHER ->
                 /\ subErrorCount' = AddBatch(subErrorCount, batch)
                 /\ subI' = NextIndex(subI, SubscriberBatchSize)
                 /\ SubLoopHead(Append(tr, Log("sub_batch_exception", no, 0)),
                                supabaseSubscribers,
                                NextIndex(subI, SubscriberBatchSize),
                                subSuccessCount, AddBatch(subErrorCount, batch))
                 /\ UNCHANGED <<subSuccessCount, destSubscribers>>
  /\ UNCHANGED <<convVars, queryVars, bootVars, srcVars, clock, articleLocals, supabaseSubscribers,
                 destArticles, rerun, firstRunDest>>

SubDelayElapses ==
  /\ pc = "awaitSubDelay"
  /\ subI' = NextIndex(subI, SubscriberBatchSize)
  /\ SubLoopHead(Append(trace, Ev("ok", "timer", 500)), supabaseSubscribers,
                 NextIndex(subI, SubscriberBatchSize), subSuccessCount,
                 subErrorCount)
  /\ UNCHANGED <<convVars, queryVars, bootVars, srcVars, clock, articleLocals, supabaseSubscribers,
                 subSuccessCount, subErrorCount, destVars, rerun, firstRunDest>>

\* mongoClient.close() resolves; the last log line; .then(...) exits the process
CloseReturns ==
  /\ pc = "awaitClose"
  /\ trace' = trace \o <<Ev("ok", "close", 0), Log("closed", 0, 0)>>
  /\ pc' = "exited"
  /\ firstRunDest' = IF firstRunDest = NotRun
                     THEN [t |-> "dest", articles |-> destArticles,
                           subscribers |-> destSubscribers]
                     ELSE firstRunDest
  /\ UNCHANGED <<convVars, queryVars, bootVars, srcVars, clock, articleLocals, subscriberLocals,
                 destVars, rerun>>

\* the script is launched again, on the same source and destination
Restart ==
  /\ pc = "exited"
  /\ ~rerun
  /\ rerun' = TRUE
  /\ pc' = "start"
  /\ collections' = {}
  /\ supabaseArticles' = <<>>
  /\ i' = 0
  /\ successCount' = 0
  /\ errorCount' = 0
  /\ supabaseSubscribers' = <<>>
  /\ subI' = 0
  /\ subSuccessCount' = 0
  /\ subErrorCount' = 0
  /\ UNCHANGED <<convVars, queryVars, bootVars, srcVars, clock, trace, destVars, firstRunDest>>

Next ==
  \/ Start
  \/ ConnectReturns
  \/ ListReturns
  \/ FindArticlesReturns
  \/ UpsertReturns
  \/ DelayElapses
  \/ SubFindReturns
  \/ SubUpsertReturns
  \/ SubDelayElapses
  \/ CloseReturns

Spec == Init /\ [][Next]_vars

NextRerun ==
  \/ Start
  \/ ConnectReturns
  \/ ListReturns
  \/ FindArticlesReturns
  \/ UpsertReturns
  \/ DelayElapses
  \/ SubFindReturns
  \/ SubUpsertReturns
  \/ SubDelayElapses
  \/ CloseReturns
  \/ Restart

SpecRerun == InitSmall /\ [][NextRerun]_vars

(***************************************************************************)
(* Conversion harness: documents with `title` and at most MaxOverrides     *)
(* further fields, each holding any of a range of JavaScript values.       *)
(***************************************************************************)
Chars(n, c) == [k \in 1..n |-> c]

JSValues ==
  {Undefined, Null, Str(<<>>), Str(<<"x">>), Str(Chars(ExcerptLen, "c")),
   Str(Chars(MaxContentLen, "c")), Num(0), Num(42), Bool(TRUE), Bool(FALSE),
   Arr(<<>>), Arr(<<Str(<<"t">>)>>), Oid(7), DateV(1)}


RECURSIVE Override(_, _, _)
\* doc with up to n fields replaced by values of JSValues
Override(docs, fields, n) ==
  IF n = 0 THEN docs
  ELSE docs \cup
       Override({[d EXCEPT ![f] = x] : d \in docs, f \in fields, x \in JSValues},
                fields, n - 1)

HarnessArticleDocs == Override({TitleOnlyDoc}, ArticleFields, MaxOverrides)
HarnessSubscriberDocs == Override({EmptySubscriberDoc}, SubscriberFields, MaxOverrides)


InitConvert ==
  /\ \/ cdoc \in HarnessArticleDocs /\ sdoc = EmptySubscriberDoc
     \/ cdoc = TitleOnlyDoc /\ sdoc \in HarnessSubscriberDocs
  /\ cout = NotRun
  /\ sout = NotRun
  /\ MigrationIdle
  /\ QueryIdle
  /\ BootIdle

ConvertArticle ==
  /\ cout = NotRun
  /\ \E now \in Nows, rnd \in Rnds :
       cout' = convertDocumentToSupabaseFormat(cdoc, now, rnd)
  /\ UNCHANGED <<cdoc, sdoc, sout, migVars, queryVars, bootVars>>

ConvertSubscriber ==
  /\ sout = NotRun
  /\ \E now \in Nows : sout' = convertSubscriber(sdoc, now)
  /\ UNCHANGED <<cdoc, cout, sdoc, migVars, queryVars, bootVars>>

NextConvert == ConvertArticle \/ ConvertSubscriber

SpecConvert == InitConvert /\ [][NextConvert]_vars

(***************************************************************************)
(* Properties of the copy job                                              *)
(***************************************************************************)
IsCall(ev, m) == ev.e = "call" /\ ev.m = m
IsAnswer(ev, m) == ev.e \in {"ok", "error", "throw"} /\ ev.m = m
IsFailure(ev, m) == ev.e \in {"error", "throw"} /\ ev.m = m
IsLog(ev, m) == ev.e = "log" /\ ev.m = m

Positions(tr, P(_)) == {k \in 1..Len(tr) : P(tr[k])}

IsArticleUpsertCall(ev) == IsCall(ev, "upsert_articles")
IsSubscriberUpsertCall(ev) == IsCall(ev, "upsert_subscribers")
IsCloseCall(ev) == IsCall(ev, "close")

ArticleUpsertCalls == SelectSeq(trace, IsArticleUpsertCall)

RECURSIVE SumSizes(_, _, _)
\* total size of the batches of `list` that start at the indices in S
SumSizes(S, list, batchSize) ==
  IF S = {} THEN 0
  ELSE LET n == CHOOSE x \in S : TRUE
       IN Len(Slice(list, n, n + batchSize)) + SumSizes(S \ {n}, list, batchSize)

\* total size of the article batches whose answer in tr is one of `kinds`
SizeOfBatches(tr, m, kinds, list) ==
  SumSizes({tr[k].n : k \in {p \in 1..Len(tr) : tr[p].e \in kinds /\ tr[p].m = m}},
           list, ArticleBatchSize)

Logged(m) == \E k \in 1..Len(trace) : IsLog(trace[k], m)

\* C1: in the article loop every batch is attempted exactly once, in index
\* order, whatever the answers (data, error object, rejection); a failed
\* batch adds its whole size to errorCount, the run never leaves the loop
\* through the outer catch, and it reaches the summary line, which reports
\* the two counters.
C1_EveryBatchAttemptedOnce ==
  LET calls == ArticleUpsertCalls
      nBatches == CeilDiv(Len(supabaseArticles), ArticleBatchSize)
      answered == Cardinality(Positions(trace, LAMBDA ev : IsAnswer(ev, "upsert_articles")))
  IN /\ \A k \in 1..Len(calls) : calls[k].n = (k - 1) * ArticleBatchSize
     /\ Len(calls) <= nBatches
     /\ answered = Len(calls) \/ (answered + 1 = Len(calls) /\ pc = "awaitUpsert")
     /\ errorCount = SizeOfBatches(trace, "upsert_articles", {"error", "throw"},
                                   supabaseArticles)
     /\ successCount = SizeOfBatches(trace, "upsert_articles", {"ok"},
                                     supabaseArticles)
     /\ (calls # <<>> => ~Logged("migration_error"))
     /\ (Logged("completed") =>
           /\ Len(calls) = nBatches
           /\ answered = nBatches
           /\ \E k \in 1..Len(trace) :
                trace[k] = Log("completed", successCount, errorCount))
     /\ (pc = "exited" /\ calls # <<>> => Logged("completed"))

\* three batches, answered by an error object, a rejection and data
C1_Witness ==
  /\ pc = "exited"
  /\ Len(ArticleUpsertCalls) = 3
  /\ \E a, b, c \in 1..Len(trace) :
       /\ a < b /\ b < c
       /\ trace[a] = Ev("error", "upsert_articles", 0)
       /\ trace[b] = Ev("throw", "upsert_articles", ArticleBatchSize)
       /\ trace[c] = Ev("ok", "upsert_articles", 2 * ArticleBatchSize)
  /\ errorCount = 2 * ArticleBatchSize
  /\ Logged("completed")

IsTimerExpiry(ev) == ev.e = "ok" /\ ev.m = "timer"

PausedBetween(m) ==
  \A j, k \in 1..Len(trace) :
    (j < k /\ IsCall(trace[j], m) /\ IsCall(trace[k], m))
      => \E p \in (j + 1)..(k - 1) : IsTimerExpiry(trace[p])

\* C2: in both loops the 500ms timer expires between the answer to one
\* batch's upsert and the issue of the next batch's upsert, whatever the
\* answer was (data, error object or rejection).
C2_PauseAfterEveryBatch ==
  /\ PausedBetween("upsert_articles")
  /\ PausedBetween("upsert_subscribers")

\* C3: a run whose connection succeeded on a database holding a
\* 'subscribers' collection has called migrateSubscribers by the time the
\* process exits.
C3_SubscribersCopied ==
  (/\ pc = "exited"
   /\ \E k \in 1..Len(trace) : trace[k] = Ev("ok", "connect", 0)
   /\ "subscribers" \in srcCollections)
    => Logged("sub_starting")

\* C4: the MongoDB connection is closed at most once and exactly once by
\* the time the process exits; no store call of any kind is issued after the
\* close; the last line of the log is written after the close returned.
C4_ClosedOnEveryExitPath ==
  LET closes == Positions(trace, IsCloseCall)
  IN /\ Cardinality(closes) <= 1
     /\ \A c \in closes : \A k \in (c + 1)..Len(trace) : trace[k].e # "call"
     /\ pc = "exited" =>
          /\ Cardinality(closes) = 1
          /\ \A c \in closes :
               /\ c + 2 = Len(trace)
               /\ trace[c + 1] = Ev("ok", "close", 0)
               /\ trace[c + 2] = Log("closed", 0, 0)

\* the run ended by the early return for an empty 'articles' collection
C4_Witness ==
  /\ pc = "exited"
  /\ Logged("no_articles")
  /\ trace[Len(trace)] = Log("closed", 0, 0)

\* no store call of either run failed: both runs copied everything
AllCallsOk == \A k \in 1..Len(trace) : trace[k].e \notin {"error", "throw"}

\* C5: after a second run on the unchanged source, all upserts having
\* succeeded, the destination tables are what the first run left; no two
\* article rows carry the same mongo_id or the same slug, and no two
\* subscriber rows the same email.
C5_RerunIdempotent ==
  (pc = "exited" /\ rerun /\ AllCallsOk) =>
    /\ firstRunDest.articles = destArticles
    /\ firstRunDest.subscribers = destSubscribers
    /\ \A x, y \in destArticles :
         (x.mongo_id = y.mongo_id \/ x.slug = y.slug) => x = y
    /\ \A x, y \in destSubscribers : x.email = y.email => x = y

ArticleBatchOk ==
  pc = "awaitUpsert" /\ pc' = "awaitDelay" /\ successCount' # successCount

SubscriberBatchOk ==
  pc = "awaitSubUpsert" /\ pc' = "awaitSubDelay"
    /\ subSuccessCount' # subSuccessCount

\* C6: a successful article batch leaves, for each of its slugs, exactly the
\* batch's row in the destination (an existing row with that slug is
\* replaced); a successful subscriber batch leaves every existing row as it
\* was and exactly one row per e-mail of the batch.
C6_ConflictPolicies ==
  [][/\ ArticleBatchOk =>
          \A k \in 1..Len(ArticleBatch) :
            {x \in destArticles' : x.slug = ArticleBatch[k].slug} = {ArticleBatch[k]}
     /\ SubscriberBatchOk =>
          /\ destSubscribers \subseteq destSubscribers'
          /\ \A k \in 1..Len(SubscriberBatch) :
               LET same(D) == {x \in D : x.email = SubscriberBatch[k].email}
               IN /\ Cardinality(same(destSubscribers')) = 1
                  /\ same(destSubscribers) # {} =>
                       same(destSubscribers') = same(destSubscribers)]_vars

\* both conflicts have happened: the old article row was replaced by the
\* source's, the old subscriber row survived a successful batch with its e-mail
C6_Witness ==
  /\ OldArticleRow \notin destArticles
  /\ \E x \in destArticles : x.slug = OldArticleRow.slug /\ x.title = Str(<<"T">>)
  /\ destSubscribers = {OldSubscriberRow}
  /\ \E k \in 1..Len(trace) : trace[k] = Ev("ok", "upsert_subscribers", 0)

(***************************************************************************)
(* Properties of the conversions                                           *)
(***************************************************************************)
\* C7: a document with only `title` converts to author "Unknown", category
\* "Uncategorized", is_featured false, tags [] and excerpt ''; with a string
\* `content` and no `excerpt`, excerpt is the first 150 characters of content
\* followed by '...'.
C7_Defaults ==
  /\ (cdoc = TitleOnlyDoc /\ cout # NotRun) =>
       /\ cout.author = Str(sUnknown)
       /\ cout.category = Str(sUncategorized)
       /\ cout.is_featured = Bool(FALSE)
       /\ cout.tags = Arr(<<>>)
       /\ cout.excerpt = Str(<<>>)
  /\ \A c \in JSValues :
       (/\ c.t = "string"
        /\ cdoc = [TitleOnlyDoc EXCEPT !["content"] = c]
        /\ cout # NotRun)
         => cout.excerpt = Str(SubSeq(c.v, 1, Min(150, Len(c.v))) \o Ellipsis)

IsStr(x) == x.t = "string"
IsNullableStr(x) == x.t \in {"string", "null"}

ArticleRowTyped(r) ==
  /\ r # Throw
  /\ IsStr(r.title) /\ IsStr(r.slug) /\ IsStr(r.author) /\ IsStr(r.content)
  /\ IsStr(r.excerpt) /\ IsStr(r.category)
  /\ r.published_date.t \in {"date", "string"}
  /\ r.tags.t = "array"
  /\ r.is_featured.t = "boolean"
  /\ IsNullableStr(r.subcategory) /\ IsNullableStr(r.source)
  /\ IsNullableStr(r.image) /\ IsNullableStr(r.image_caption)
  /\ IsNullableStr(r.image_alt) /\ IsNullableStr(r.image_credit)
  /\ IsNullableStr(r.pdf_url) /\ IsNullableStr(r.author_bio)
  /\ IsNullableStr(r.mongo_id)

SubscriberRowTyped(r) ==
  /\ IsStr(r.email)
  /\ r.subscribed_at.t \in {"date", "string"}
  /\ IsStr(r.status)
  /\ IsNullableStr(r.mongo_id)

\* C8: whatever the source document holds, every field of the converted
\* article or subscriber row has the type of the data model: strings are
\* strings, tags an array, is_featured a boolean, nullable strings a string
\* or null, and the key (slug / email) a string.
C8_RowsTyped ==
  /\ cout # NotRun => ArticleRowTyped(cout)
  /\ sout # NotRun => SubscriberRowTyped(sout)

(***************************************************************************)
(* The article routes: strings, patterns and the article store.  The       *)
(* handlers keep no state between requests, so each behaviour serves one   *)
(* request against one store content.                                      *)
(***************************************************************************)
MaxRows == 2           \* most rows in the article store

LowerLetters == <<"a", "l", "s", "t", "w", "x">>
UpperLetters == <<"A", "L", "S", "T", "W", "X">>

\* String.prototype.toUpperCase / toLowerCase on one character
ToUpperCase(c) ==
  IF \E k \in 1..Len(LowerLetters) : LowerLetters[k] = c
  THEN UpperLetters[CHOOSE k \in 1..Len(LowerLetters) : LowerLetters[k] = c]
  ELSE c
ToLowerCase(c) ==
  IF \E k \in 1..Len(UpperLetters) : UpperLetters[k] = c
  THEN LowerLetters[CHOOSE k \in 1..Len(UpperLetters) : UpperLetters[k] = c]
  ELSE c

RECURSIVE SplitOn(_, _)
\* String.prototype.split(sep) for a one-character separator
SplitOn(s, sep) ==
  IF \A k \in 1..Len(s) : s[k] # sep THEN <<s>>
  ELSE LET p == CHOOSE k \in 1..Len(s) :
                  s[k] = sep /\ \A j \in 1..(k - 1) : s[j] # sep
       IN <<SubSeq(s, 1, p - 1)>> \o SplitOn(SubSeq(s, p + 1, Len(s)), sep)

RECURSIVE JoinWith(_, _)
\* Array.prototype.join(sep)
JoinWith(words, sep) ==
  IF words = <<>> THEN <<>>
  ELSE IF Len(words) = 1 THEN words[1]
  ELSE words[1] \o <<sep>> \o JoinWith(Tail(words), sep)

\* word.charAt(0).toUpperCase() + word.slice(1)
Capitalize(word) ==
  IF word = <<>> THEN <<>> ELSE <<ToUpperCase(word[1])>> \o Tail(word)

\* slug.split('-').map(capitalize).join(' ')
FormatSlug(slug) ==
  LET words == SplitOn(slug, "-")
  IN JoinWith([k \in 1..Len(words) |-> Capitalize(words[k])], " ")

\* String.prototype.endsWith('s')
EndsWithS(s) == s # <<>> /\ s[Len(s)] = "s"

\* categoryName.endsWith('s') ? categoryName.slice(0, -1) : categoryName
SingularOf(name) == IF EndsWithS(name) THEN SubSeq(name, 1, Len(name) - 1) ELSE name

\* !categoryName.endsWith('s') ? categoryName + 's' : categoryName
PluralOf(name) == IF ~EndsWithS(name) THEN name \o <<"s">> ELSE name

\* one pattern character against one text character, ignoring case; `any`
\* is the set of pattern characters that match every character
PatternCharMatches(p, c, any) == p \in any \/ ToLowerCase(p) = ToLowerCase(c)

\* an unanchored, case-insensitive search of `text` for `pattern`
PatternFound(pattern, text, any) ==
  \E off \in 0..(Len(text) - Len(pattern)) :
    \A k \in 1..Len(pattern) : PatternCharMatches(pattern[k], text[off + k], any)

\* new RegExp(source, 'i') tested against a field: the source is used as a
\* regular expression, in which `.` matches any character
RegExpTest(source, value) ==
  value.t = "string" /\ PatternFound(source, value.v, {"."})

\* { tags: { $regex: re } } : some element of the array matches
RegExpTestAny(source, tags) ==
  \E k \in 1..Len(tags) : PatternFound(source, tags[k], {"."})

\* column.ilike.%text% : the text is used as a LIKE pattern, in which `_`
\* matches any character; a null column matches nothing
ILike(text, value) ==
  value.t = "string" /\ PatternFound(text, value.v, {"_"})

\* .contains('tags', [name]) : the array has an element equal to name
TagsContain(tags, name) == \E k \in 1..Len(tags) : tags[k] = name

RECURSIVE SortedDesc(_)
\* permutations of the rows S in non-increasing published_date order
\* (.sort({ published_date: -1 }) / .order('published_date', { ascending: false }))
SortedDesc(S) ==
  IF S = {} THEN {<<>>}
  ELSE UNION {{<<r>> \o s : s \in SortedDesc(S \ {r})} :
                r \in {x \in S : \A y \in S : x.published_date >= y.published_date}}

sLaw == <<"L", "a", "w">>
slaws == <<"l", "a", "w", "s">>
sTax == <<"T", "a", "x">>

RowCategories == {Str(sLaw), Str(slaws), Str(sTax), Null}
RowTags == {<<>>, <<sLaw>>, <<slaws>>, <<sTax, <<"l", "a", "w">>>>}
RowDates == {1, 2}

RowsWithId(n) ==
  {[id |-> n, category |-> c, tags |-> t, published_date |-> d] :
     c \in RowCategories, t \in RowTags, d \in RowDates}

RECURSIVE Stores(_)
\* article tables of at most n rows, with ids 1..n unique
Stores(n) ==
  IF n = 0 THEN {{}}
  ELSE LET smaller == Stores(n - 1)
       IN smaller \cup {S \cup {r} : S \in smaller, r \in RowsWithId(n)}

\* values of the :categorySlug route parameter
CategorySlugs ==
  { <<"l", "a", "w">>, <<"l", "a", "w", "s">>, <<"t", "a", "x", "-", "l", "a", "w">>,
    <<"s">>, <<"l", ".", "w">>, <<"l", "_", "w">> }

InitQuery ==
  /\ ConvertIdle
  /\ MigrationIdle
  /\ BootIdle
  /\ store \in Stores(MaxRows)
  /\ req = NoRequest
  /\ res = NoResponse
  /\ queries = <<>>

\* a query sent to the store, and whether the store answered it
Query(name, ok) == [q |-> name, ok |-> ok]

\* res.json(articles) / res.status(500).json({ message })
Json(body) == [status |-> 200, body |-> body]
ServerError == [status |-> 500, body |-> <<>>]

\* the $or filter of the mongoose category route
MongooseCategoryFilter(row, categorySlug) ==
  LET categoryName == FormatSlug(categorySlug)
  IN \/ RegExpTest(categoryName, row.category)
     \/ RegExpTest(SingularOf(categoryName), row.category)
     \/ RegExpTest(PluralOf(categoryName), row.category)
     \/ RegExpTestAny(categoryName, row.tags)

\* router.get('/category/:categorySlug') of the mongoose variant
CategoryMongoose ==
  /\ res = NoResponse
  /\ \E categorySlug \in CategorySlugs, ok \in BOOLEAN :
       /\ req' = [route |-> "category", variant |-> "mongoose", param |-> categorySlug]
       /\ queries' = <<Query("find", ok)>>
       /\ IF ok
          THEN \E articles \in SortedDesc({r \in store :
                                             MongooseCategoryFilter(r, categorySlug)}) :
                 res' = Json(articles)
          ELSE res' = ServerError
  /\ UNCHANGED <<store, convVars, migVars, bootVars>>

\* the .or(...) filter of the first query of the supabase category route
SupabaseCategoryFilter(row, categorySlug) ==
  LET categoryName == FormatSlug(categorySlug)
  IN \/ ILike(categoryName, row.category)
     \/ ILike(SingularOf(categoryName), row.category)
     \/ ILike(PluralOf(categoryName), row.category)

\* the .contains('tags', [categoryName]) filter of its second query
SupabaseCategoryTagFilter(row, categorySlug) ==
  TagsContain(row.tags, FormatSlug(categorySlug))

\* combinedArticles: the first list, then the rows of the second whose id
\* is not yet in it
Combine(first, second) ==
  LET Fresh(r) == \A k \in 1..Len(first) : first[k].id # r.id
  IN first \o SelectSeq(second, Fresh)

\* router.get('/category/:categorySlug') of the supabase variant
CategorySupabase ==
  /\ res = NoResponse
  /\ \E categorySlug \in CategorySlugs, categoryOk \in BOOLEAN, tagOk \in BOOLEAN :
       /\ req' = [route |-> "category", variant |-> "supabase", param |-> categorySlug]
       /\ queries' = IF categoryOk THEN <<Query("category", TRUE), Query("tags", tagOk)>>
                     ELSE <<Query("category", FALSE)>>
       /\ IF categoryOk /\ tagOk
          THEN \E categoryArticles \in
                    SortedDesc({r \in store : SupabaseCategoryFilter(r, categorySlug)}),
                  tagArticles \in
                    SortedDesc({r \in store : SupabaseCategoryTagFilter(r, categorySlug)}) :
                 res' = Json(Combine(categoryArticles, tagArticles))
          ELSE res' = ServerError
  /\ UNCHANGED <<store, convVars, migVars, bootVars>>

NextQuery == CategoryMongoose \/ CategorySupabase

SpecQuery == InitQuery /\ [][NextQuery]_vars

(***************************************************************************)
(* Properties of the category route                                        *)
(***************************************************************************)
\* `needle` occurs in `text`, ignoring case
ContainsIgnoringCase(text, needle) == PatternFound(needle, text, {})

\* the text contains the formatted slug, its singular or its plural
MatchesVariant(text, categorySlug) ==
  LET name == FormatSlug(categorySlug)
  IN \/ ContainsIgnoringCase(text, name)
     \/ ContainsIgnoringCase(text, SingularOf(name))
     \/ ContainsIgnoringCase(text, PluralOf(name))

CategoryMatch(row, categorySlug) ==
  row.category.t = "string" /\ MatchesVariant(row.category.v, categorySlug)

TagMatch(row, categorySlug) ==
  \E k \in 1..Len(row.tags) : MatchesVariant(row.tags[k], categorySlug)

CategoryAnswered == req.route = "category" /\ res.status = 200

\* C9: every record of a category response has a category that contains,
\* ignoring case, the formatted slug, its singular or its plural, or a tag
\* that does; and no record is in the response twice.
C9_OnlyMatchingNoDuplicates ==
  CategoryAnswered =>
    /\ \A k \in 1..Len(res.body) :
         CategoryMatch(res.body[k], req.param) \/ TagMatch(res.body[k], req.param)
    /\ \A j, k \in 1..Len(res.body) : res.body[j].id = res.body[k].id => j = k

\* C10: every record of the store whose category, or one of whose tags,
\* contains (ignoring case) the formatted slug, its singular or its plural
\* is in the category response.
C10_EveryMatchReturned ==
  CategoryAnswered =>
    \A r \in store :
      (CategoryMatch(r, req.param) \/ TagMatch(r, req.param))
        => \E k \in 1..Len(res.body) : res.body[k] = r

(***************************************************************************)
(* The article routes: every route of the router, both variants.  A store  *)
(* row carries the fields the routes read; slugs are unique, as the unique *)
(* index behind the copy job's onConflict: 'slug' keeps them.              *)
(***************************************************************************)
MaxBulkRows == 6       \* most rows in a store of uniform rows

sTaxLower == <<"t", "a", "x">>
sLawLower == <<"l", "a", "w">>

\* the slug of the row with id n
SlugOfId(n) == <<"s">> \o Digits(n)

\* category, subcategory, tags and is_featured of the hand-picked rows
RowShapes ==
  { [category |-> Str(sLaw), subcategory |-> Null, tags |-> <<>>, is_featured |-> FALSE],
    [category |-> Str(sTax), subcategory |-> Null, tags |-> <<sLaw>>, is_featured |-> TRUE],
    [category |-> Str(sLaw), subcategory |-> Str(sTax), tags |-> <<>>, is_featured |-> FALSE],
    [category |-> Str(sLaw), subcategory |-> Null, tags |-> <<sTax>>, is_featured |-> TRUE],
    [category |-> Null, subcategory |-> Str(sLaw), tags |-> <<>>, is_featured |-> FALSE] }

ArticleRow(n, shape, d) ==
  [id |-> n, slug |-> SlugOfId(n), category |-> shape.category,
   subcategory |-> shape.subcategory, tags |-> shape.tags,
   published_date |-> d, is_featured |-> shape.is_featured]

ArticleRowsWithId(n) == {ArticleRow(n, shape, d) : shape \in RowShapes, d \in RowDates}

RECURSIVE ArticleStores(_)
\* article tables of at most n hand-picked rows, with ids 1..n
ArticleStores(n) ==
  IF n = 0 THEN {{}}
  ELSE LET smaller == ArticleStores(n - 1)
       IN smaller \cup {S \cup {r} : S \in {T \in smaller : Cardinality(T) = n - 1},
                                     r \in ArticleRowsWithId(n)}

\* a table of n rows of one category, with repeated dates
UniformStore(n) ==
  {[id |-> k, slug |-> SlugOfId(k), category |-> Str(sLaw), subcategory |-> Null,
    tags |-> <<>>, published_date |-> (k % 3) + 1, is_featured |-> (k % 2 = 0)] :
     k \in 1..n}

InitRoutes ==
  /\ ConvertIdle
  /\ MigrationIdle
  /\ BootIdle
  /\ store \in ArticleStores(MaxRows) \cup {UniformStore(n) : n \in 0..MaxBulkRows}
  /\ req = NoRequest
  /\ res = NoResponse
  /\ queries = <<>>

\* res.status(404).json({ message: 'Article not found' })
NotFound == [status |-> 404, body |-> <<>>]

\* a query whose .limit(n) was left out
LimitLeftOut(list, n) == list

\* .limit(n): the first n rows of an ordered result
Limit(list, n) == SubSeq(list, 1, Min(n, Len(list)))

IsDigit(c) == c \in {"0", "1", "2", "3", "4", "5", "6", "7", "8", "9"}
DigitValue(c) == CHOOSE d \in 0..9 : DigitChar(d) = c

RECURSIVE NumberOf(_)
\* the number a string of decimal digits denotes
NumberOf(ds) ==
  IF ds = <<>> THEN 0
  ELSE 10 * NumberOf(SubSeq(ds, 1, Len(ds) - 1)) + DigitValue(ds[Len(ds)])

\* parseInt(x) for unsigned input: the value is rendered as a string and its
\* longest prefix of decimal digits is read; NaN when that prefix is empty
ParseInt(x) ==
  LET s == ToStringChars(x)
      n == CHOOSE k \in 0..Len(s) :
             /\ \A j \in 1..k : IsDigit(s[j])
             /\ k < Len(s) => ~IsDigit(s[k + 1])
  IN IF n = 0 THEN NaN ELSE Num(NumberOf(SubSeq(s, 1, n)))

DefaultLimit == 5

\* parseInt(req.query.limit) || 5
LimitOf(limit) == OrElse(ParseInt(limit), Num(DefaultLimit)).v

\* values of the `limit` query parameter; Undefined when it is absent
LimitParams ==
  {Undefined, Str(<<"1">>), Str(<<"2">>), Str(<<"0">>), Str(<<"x">>), Str(<<"2", "x">>)}

RECURSIVE DecodeURIComponent(_)
\* decodeURIComponent over the escapes %20 and %25; a `%` that does not
\* start an escape makes it throw URIError
DecodeURIComponent(s) ==
  IF s = <<>> THEN Str(<<>>)
  ELSE IF s[1] # "%"
       THEN LET rest == DecodeURIComponent(Tail(s))
            IN IF rest = Throw THEN Throw ELSE Str(<<s[1]>> \o rest.v)
       ELSE IF Len(s) >= 3 /\ SubSeq(s, 2, 3) \in {<<"2", "0">>, <<"2", "5">>}
            THEN LET rest == DecodeURIComponent(SubSeq(s, 4, Len(s)))
                     c == IF s[3] = "0" THEN " " ELSE "%"
                 IN IF rest = Throw THEN Throw ELSE Str(<<c>> \o rest.v)
            ELSE Throw

\* values of the :tagName route parameter
TagNames ==
  { sLawLower, sLaw, sTaxLower, <<"l", ".", "w">>, <<"x">>, <<"%">>,
    <<"t", "a", "x", "%", "2", "0", "x">> }

\* values of :categorySlug/:subcategorySlug
SubcategorySlugs ==
  { <<sLawLower, sTaxLower>>, <<sTaxLower, sLawLower>>, <<slaws, sTaxLower>> }

\* values of :category and ?excludeSlug of the related route
RelatedParams == {<<c, SlugOfId(n)>> : c \in {sLawLower, <<"a">>, <<"x">>}, n \in 1..2}

\* values of the :slug route parameter: slugs of rows, and one of no row
SlugParams == {SlugOfId(n) : n \in 1..(MaxRows + 1)}

\* the request a handler was entered with
Request(route, variant, param) == [route |-> route, variant |-> variant, param |-> param]

\* router.get('/') of the mongoose variant
ListMongoose ==
  /\ res = NoResponse
  /\ req' = Request("list", "mongoose", <<>>)
  /\ \E ok \in BOOLEAN :
       /\ queries' = <<Query("find", ok)>>
       /\ IF ok
          THEN \E articles \in SortedDesc(store) : res' = Json(articles)
          ELSE res' = ServerError
  /\ UNCHANGED <<store, convVars, migVars, bootVars>>

\* router.get('/') of the supabase variant
ListSupabase ==
  /\ res = NoResponse
  /\ req' = Request("list", "supabase", <<>>)
  /\ \E ok \in BOOLEAN :
       /\ queries' = <<Query("select", ok)>>
       /\ IF ok
          THEN \E articles \in SortedDesc(store) : res' = Json(articles)
          ELSE res' = ServerError
  /\ UNCHANGED <<store, convVars, migVars, bootVars>>

\* router.get('/featured') of the mongoose variant
FeaturedMongoose ==
  /\ res = NoResponse
  /\ \E limitParam \in LimitParams, ok \in BOOLEAN :
       LET limit == LimitOf(limitParam)
       IN /\ req' = Request("featured", "mongoose", <<limitParam>>)
          /\ queries' = <<Query("find", ok)>>
          /\ IF ok
             THEN \E articles \in SortedDesc(store) : res' = Json(Limit(articles, limit))
             ELSE res' = ServerError
  /\ UNCHANGED <<store, convVars, migVars, bootVars>>

\* router.get('/featured') of the supabase variant
FeaturedSupabase ==
  /\ res = NoResponse
  /\ \E limitParam \in LimitParams, ok \in BOOLEAN :
       LET limit == LimitOf(limitParam)
       IN /\ req' = Request("featured", "supabase", <<limitParam>>)
          /\ queries' = <<Query("select", ok)>>
          /\ IF ok
             THEN \E articles \in SortedDesc(store) : res' = Json(Limit(articles, limit))
             ELSE res' = ServerError
  /\ UNCHANGED <<store, convVars, migVars, bootVars>>

\* the $and filter of the mongoose category + subcategory route
MongooseSubcategoryFilter(row, categorySlug, subcategorySlug) ==
  LET categoryName == FormatSlug(categorySlug)
      subcategoryName == FormatSlug(subcategorySlug)
  IN /\ \/ RegExpTest(categoryName, row.category)
        \/ RegExpTest(SingularOf(categoryName), row.category)
        \/ RegExpTest(PluralOf(categoryName), row.category)
     /\ \/ RegExpTest(subcategoryName, row.subcategory)
        \/ RegExpTestAny(subcategoryName, row.tags)

\* router.get('/category/:categorySlug/subcategory/:subcategorySlug'), mongoose
SubcategoryMongoose ==
  /\ res = NoResponse
  /\ \E slugs \in SubcategorySlugs, ok \in BOOLEAN :
       /\ req' = Request("subcategory", "mongoose", slugs)
       /\ queries' = <<Query("find", ok)>>
       /\ IF ok
          THEN \E articles \in SortedDesc({r \in store :
                                 MongooseSubcategoryFilter(r, slugs[1], slugs[2])}) :
                 res' = Json(articles)
          ELSE res' = ServerError
  /\ UNCHANGED <<store, convVars, migVars, bootVars>>

\* .or(category ...).ilike('subcategory', `%${subcategoryName}%`)
SupabaseSubcategoryFilter(row, categorySlug, subcategorySlug) ==
  /\ SupabaseCategoryFilter(row, categorySlug)
  /\ ILike(FormatSlug(subcategorySlug), row.subcategory)

\* .or(category ...).contains('tags', [subcategoryName])
SupabaseSubcategoryTagFilter(row, categorySlug, subcategorySlug) ==
  /\ SupabaseCategoryFilter(row, categorySlug)
  /\ TagsContain(row.tags, FormatSlug(subcategorySlug))

\* router.get('/category/:categorySlug/subcategory/:subcategorySlug'), supabase
SubcategorySupabase ==
  /\ res = NoResponse
  /\ \E slugs \in SubcategorySlugs, ok \in BOOLEAN, tagOk \in BOOLEAN :
       /\ req' = Request("subcategory", "supabase", slugs)
       /\ queries' = IF ok THEN <<Query("subcategory", TRUE), Query("tags", tagOk)>>
                     ELSE <<Query("subcategory", FALSE)>>
       /\ IF ok /\ tagOk
          THEN \E articles \in
                    SortedDesc({r \in store :
                                  SupabaseSubcategoryFilter(r, slugs[1], slugs[2])}),
                  tagArticles \in
                    SortedDesc({r \in store :
                                  SupabaseSubcategoryTagFilter(r, slugs[1], slugs[2])}) :
                 res' = Json(Combine(articles, tagArticles))
          ELSE res' = ServerError
  /\ UNCHANGED <<store, convVars, migVars, bootVars>>

RelatedLimit == 3

\* router.get('/related/:category') of the mongoose variant
RelatedMongoose ==
  /\ res = NoResponse
  /\ \E p \in RelatedParams, ok \in BOOLEAN :
       LET category == p[1]
           excludeSlug == p[2]
       IN /\ req' = Request("related", "mongoose", p)
          /\ queries' = <<Query("find", ok)>>
          /\ IF ok
             THEN \E articles \in SortedDesc({r \in store :
                                    /\ RegExpTest(category, r.category)
                                    /\ r.slug # excludeSlug}) :
                    res' = Json(Limit(articles, RelatedLimit))
             ELSE res' = ServerError
  /\ UNCHANGED <<store, convVars, migVars, bootVars>>

\* router.get('/related/:category') of the supabase variant
RelatedSupabase ==
  /\ res = NoResponse
  /\ \E p \in RelatedParams, ok \in BOOLEAN :
       LET category == p[1]
           excludeSlug == p[2]
       IN /\ req' = Request("related", "supabase", p)
          /\ queries' = <<Query("select", ok)>>
          /\ IF ok
             THEN \E articles \in SortedDesc({r \in store :
                                    /\ ILike(category, r.category)
                                    /\ r.slug # excludeSlug}) :
                    res' = Json(Limit(articles, RelatedLimit))
             ELSE res' = ServerError
  /\ UNCHANGED <<store, convVars, migVars, bootVars>>

\* { tags: { $regex: new RegExp(decodedTagName, 'i') } }
MongooseTagFilter(row, decodedTagName) == RegExpTestAny(decodedTagName, row.tags)

\* the $or filter of the second find of the mongoose tag route
MongooseTagFallbackFilter(row, decodedTagName) ==
  \/ RegExpTest(decodedTagName, row.category)
  \/ RegExpTest(decodedTagName, row.subcategory)

\* what a tag handler answers once its first query has returned `direct`:
\* the rows themselves, or the result of a second query when there are none
TagAnswer(direct, fallback, first, second) ==
  IF direct # {}
  THEN /\ queries' = <<Query(first, TRUE)>>
       /\ \E articles \in SortedDesc(direct) : res' = Json(articles)
  ELSE \E ok \in BOOLEAN :
         /\ queries' = <<Query(first, TRUE), Query(second, ok)>>
         /\ IF ok
            THEN \E articles \in SortedDesc(fallback) : res' = Json(articles)
            ELSE res' = ServerError

\* router.get('/tag/:tagName') of the mongoose variant
TagMongoose ==
  /\ res = NoResponse
  /\ \E tagName \in TagNames, ok \in BOOLEAN :
       LET decoded == DecodeURIComponent(tagName)
       IN /\ req' = Request("tag", "mongoose", tagName)
          /\ IF decoded = Throw
             THEN queries' = <<>> /\ res' = ServerError
             ELSE IF ~ok
             THEN queries' = <<Query("tags", FALSE)>> /\ res' = ServerError
             ELSE TagAnswer({r \in store : MongooseTagFilter(r, decoded.v)},
                            {r \in store : MongooseTagFallbackFilter(r, decoded.v)},
                            "tags", "fallback")
  /\ UNCHANGED <<store, convVars, migVars, bootVars>>

\* .contains('tags', [decodedTagName])
SupabaseTagFilter(row, decodedTagName) == TagsContain(row.tags, decodedTagName)

\* .or(`category.ilike.%${decodedTagName}%,subcategory.ilike.%${decodedTagName}%`)
SupabaseTagFallbackFilter(row, decodedTagName) ==
  \/ ILike(decodedTagName, row.category)
  \/ ILike(decodedTagName, row.subcategory)

\* router.get('/tag/:tagName') of the supabase variant
TagSupabase ==
  /\ res = NoResponse
  /\ \E tagName \in TagNames, ok \in BOOLEAN :
       LET decoded == DecodeURIComponent(tagName)
       IN /\ req' = Request("tag", "supabase", tagName)
          /\ IF decoded = Throw
             THEN queries' = <<>> /\ res' = ServerError
             ELSE IF ~ok
             THEN queries' = <<Query("tags", FALSE)>> /\ res' = ServerError
             ELSE TagAnswer({r \in store : SupabaseTagFilter(r, decoded.v)},
                            {r \in store : SupabaseTagFallbackFilter(r, decoded.v)},
                            "tags", "fallback")
  /\ UNCHANGED <<store, convVars, migVars, bootVars>>

\* router.get('/:slug') of the mongoose variant: findOne answers one
\* matching document, or null when there is none
SlugMongoose ==
  /\ res = NoResponse
  /\ \E slug \in SlugParams, ok \in BOOLEAN :
       LET found == {r \in store : r.slug = slug}
       IN /\ req' = Request("slug", "mongoose", slug)
          /\ queries' = <<Query("findOne", ok)>>
          /\ IF ~ok THEN res' = ServerError
             ELSE IF found = {} THEN res' = NotFound
             ELSE \E article \in found : res' = Json(article)
  /\ UNCHANGED <<store, convVars, migVars, bootVars>>

\* the code of the error .single() answers unless exactly one row matches
SingleRowError == "PGRST116"

\* .eq('slug', slug).single(): the row, or an error object; a failure of
\* the store is an error object with another code
Single(found) ==
  IF Cardinality(found) = 1
  THEN {[data |-> r, error |-> Null] : r \in found}
  ELSE {[data |-> Null, error |-> [t |-> "error", code |-> SingleRowError]]}

StoreFailure == [data |-> Null, error |-> [t |-> "error", code |-> "08006"]]

\* the answer reports a failure of the store, not a count of rows
IsStoreFailure(answer) ==
  answer.error.t # "null" /\ answer.error.code # SingleRowError

\* a handler that tests for another code than the one .single() answers
NotFoundCodeMistyped == "PGRST161"

\* the code the handler answers 404 for
NotFoundCode == "PGRST116"

\* router.get('/:slug') of the supabase variant
SlugSupabase ==
  /\ res = NoResponse
  /\ \E slug \in SlugParams :
       \E answer \in Single({r \in store : r.slug = slug}) \cup {StoreFailure} :
         /\ req' = Request("slug", "supabase", slug)
         /\ queries' = <<Query("single", ~IsStoreFailure(answer))>>
         /\ IF answer.error.t # "null"
            THEN IF answer.error.code = NotFoundCode
                 THEN res' = NotFound
                 ELSE res' = ServerError
            ELSE res' = Json(answer.data)
  /\ UNCHANGED <<store, convVars, migVars, bootVars>>

NextRoutes ==
  \/ ListMongoose \/ ListSupabase
  \/ FeaturedMongoose \/ FeaturedSupabase
  \/ CategoryMongoose \/ CategorySupabase
  \/ SubcategoryMongoose \/ SubcategorySupabase
  \/ RelatedMongoose \/ RelatedSupabase
  \/ TagMongoose \/ TagSupabase
  \/ SlugMongoose \/ SlugSupabase

SpecRoutes == InitRoutes /\ [][NextRoutes]_vars

(***************************************************************************)
(* Properties of the routes                                                *)
(***************************************************************************)
ListRoutes == {"list", "featured", "category", "subcategory", "related", "tag"}

ListAnswered == req.route \in ListRoutes /\ res.status = 200

\* C11: in the response of every list route, a record that comes earlier
\* has a published_date not older than a record that comes later.
C11_ListsNewestFirst ==
  ListAnswered =>
    \A j, k \in 1..Len(res.body) :
      j < k => res.body[j].published_date >= res.body[k].published_date

TagAnswered == req.route = "tag" /\ res.status = 200

\* some tag of the row contains the text, ignoring case
DirectTagMatch(row, t) ==
  \E k \in 1..Len(row.tags) : ContainsIgnoringCase(row.tags[k], t)

\* the row's category or subcategory contains the text, ignoring case
FallbackMatch(row, t) ==
  \/ row.category.t = "string" /\ ContainsIgnoringCase(row.category.v, t)
  \/ row.subcategory.t = "string" /\ ContainsIgnoringCase(row.subcategory.v, t)

\* C12: a tag response holds exactly the records with a tag containing the
\* decoded tag name (ignoring case) when there is such a record, and then
\* no fallback query was issued; otherwise it holds exactly the records
\* whose category or subcategory contains the name.  No record is repeated.
C12_TagDirectOrFallback ==
  TagAnswered =>
    LET t == DecodeURIComponent(req.param).v
        direct == {r \in store : DirectTagMatch(r, t)}
    IN /\ \A j, k \in 1..Len(res.body) : res.body[j] = res.body[k] => j = k
       /\ IF direct # {}
          THEN Range(res.body) = direct /\ queries = <<Query("tags", TRUE)>>
          ELSE Range(res.body) = {r \in store : FallbackMatch(r, t)}

FeaturedAnswered == req.route = "featured" /\ res.status = 200

\* the response is the first n records (all of them when there are fewer)
\* of a listing of the whole store in non-increasing published_date order
NewestN(n) ==
  /\ Len(res.body) = Min(n, Cardinality(store))
  /\ \A k \in 1..Len(res.body) : res.body[k] \in store
  /\ \A j, k \in 1..Len(res.body) : res.body[j] = res.body[k] => j = k
  /\ \A j, k \in 1..Len(res.body) :
       j < k => res.body[j].published_date >= res.body[k].published_date
  /\ \A r \in store \ Range(res.body) :
       \A k \in 1..Len(res.body) : res.body[k].published_date >= r.published_date

\* the limit value is a decimal numeral
IsNumeral(limit) ==
  /\ limit.t = "string"
  /\ limit.v # <<>>
  /\ \A k \in 1..Len(limit.v) : IsDigit(limit.v[k])

\* the limit value starts with a decimal numeral
StartsWithNumeral(limit) ==
  /\ limit.t = "string"
  /\ limit.v # <<>>
  /\ IsDigit(limit.v[1])

\* the number denoted by the longest run of digits the text starts with
LeadingNumber(text) ==
  LET Runs == {k \in 1..Len(text) : \A j \in 1..k : IsDigit(text[j])}
      n == CHOOSE k \in Runs : \A m \in Runs : m <= k
  IN NumberOf(SubSeq(text, 1, n))

SlugAnswered == req.route = "slug" /\ res.status # 0

\* some query of the request was not answered by the store
StoreFailed == \E k \in 1..Len(queries) : ~queries[k].ok

\* C14: a slug request is answered 200 with the one record of that slug,
\* 404, or 500, and nothing else; 500 exactly when the store failed;
\* otherwise 404 exactly when no record has the slug; a 200 body is one
\* record with that slug, never a list.
C14_SlugOutcomes ==
  SlugAnswered =>
    LET found == {r \in store : r.slug = req.param}
    IN /\ res.status \in {200, 404, 500}
       /\ res.status = 500 <=> StoreFailed
       /\ ~StoreFailed => (res.status = 404 <=> found = {})
       /\ res.status = 200 => res.body \in found

\* a slug that no record of a non-empty store has, looked up in the
\* supabase variant while the store answers: 404
C14_Witness ==
  /\ SlugAnswered
  /\ req.variant = "supabase"
  /\ res.status = 404
  /\ store # {}
  /\ ~StoreFailed

(***************************************************************************)
(* Process start-up: the modules a script imports are evaluated first,     *)
(* then the script's own top level.  process.exit(1) ends the process.     *)
(***************************************************************************)
\* the copy job, the server on MongoDB, the server on Supabase
Programs == {"migrate", "server_mongoose", "server_supabase"}

\* the programs that import utils/supabase.js (directly or through routes)
ImportsSupabase == {"migrate", "server_supabase"}

InitBoot ==
  /\ ConvertIdle
  /\ QueryIdle
  /\ program \in Programs
  /\ env \in SUBSET EnvNames
  /\ boot = "import"
  /\ pc = "unstarted"
  /\ IF program = "migrate"
     THEN /\ srcCollections \in {{"articles"}, {"articles", "subscribers"}}
          /\ \E n \in 0..MaxSmall : srcArticles = BulkArticles(n)
          /\ \E n \in 0..MaxSmall :
               /\ ("subscribers" \notin srcCollections => n = 0)
               /\ srcSubscribers = BulkSubscribers(n)
     ELSE /\ srcCollections = {}
          /\ srcArticles = <<>>
          /\ srcSubscribers = <<>>
  /\ clock = 1
  /\ LocalsInit
  /\ trace = <<>>
  /\ destArticles = {}
  /\ destSubscribers = {}
  /\ rerun = FALSE
  /\ firstRunDest = NotRun

\* process.exit(1)
Exit == boot' = "exited"

\* evaluation of utils/supabase.js
ImportSupabase ==
  /\ boot = "import"
  /\ program \in ImportsSupabase
  /\ IF "SUPABASE_URL" \notin env \/ "SUPABASE_KEY" \notin env
     THEN Exit
     ELSE boot' = "main"
  /\ UNCHANGED <<program, env, convVars, migVars, queryVars>>

\* server.js imports no module that reads the environment
ImportNothing ==
  /\ boot = "import"
  /\ program \notin ImportsSupabase
  /\ boot' = "main"
  /\ UNCHANGED <<program, env, convVars, migVars, queryVars>>

\* top level of the migration script: the environment check, then the
\* script goes on to call migrateData()
MigrateMain ==
  /\ boot = "main"
  /\ program = "migrate"
  /\ IF "MONGODB_URI" \notin env
     THEN Exit /\ pc' = pc
     ELSE boot' = "done" /\ pc' = "start"
  /\ UNCHANGED <<program, env, convVars, queryVars, srcVars, clock, articleLocals,
                 subscriberLocals, trace, destVars, rerun, firstRunDest>>

\* top level of server.js: mongoose.connect(...) is started, its failure
\* is only logged, and app.listen(...) is called
ServerMongooseMain ==
  /\ boot = "main"
  /\ program = "server_mongoose"
  /\ boot' = "listening"
  /\ UNCHANGED <<program, env, convVars, migVars, queryVars>>

\* top level of the server on Supabase: app.listen(...)
ServerSupabaseMain ==
  /\ boot = "main"
  /\ program = "server_supabase"
  /\ boot' = "listening"
  /\ UNCHANGED <<program, env, convVars, migVars, queryVars>>

\* a listening server answers a first request
Serve ==
  /\ boot = "listening"
  /\ boot' = "serving"
  /\ UNCHANGED <<program, env, convVars, migVars, queryVars>>

NextBoot ==
  \/ ImportSupabase
  \/ ImportNothing
  \/ MigrateMain
  \/ ServerMongooseMain
  \/ ServerSupabaseMain
  \/ Serve
  \/ Next

SpecBoot == InitBoot /\ [][NextBoot]_vars

(***************************************************************************)
(* Properties of start-up                                                  *)
(***************************************************************************)
\* the configuration the program cannot work without
Required ==
  CASE program = "migrate" -> {"MONGODB_URI", "SUPABASE_SERVICE_KEY"}
    [] program = "server_mongoose" -> {"MONGODB_URI"}
    [] program = "server_supabase" -> {"SUPABASE_URL", "SUPABASE_KEY"}
    [] OTHER -> {}

\* the process has called a store
CalledAStore == \E k \in 1..Len(trace) : trace[k].e = "call"

\* C15: a process started without part of its required configuration
\* never calls a store (the copy job) and never listens for or serves
\* requests (the server).
C15_NoWorkWithoutConfiguration ==
  ~(Required \subseteq env) => ~CalledAStore /\ boot \notin {"listening", "serving"}

(***************************************************************************)
(* Properties of the copy job: sequencing, counters, batches               *)
(***************************************************************************)
UpsertNames == {"upsert_articles", "upsert_subscribers"}

ListOf(m) == IF m = "upsert_articles" THEN supabaseArticles ELSE supabaseSubscribers
BatchSizeOf(m) == IF m = "upsert_articles" THEN ArticleBatchSize ELSE SubscriberBatchSize

\* the log line that reports the answer `ev` of an upsert: the number of
\* records on success, the batch number with the message otherwise
IsOutcomeLogOf(line, ev) ==
  LET size == BatchSizeOf(ev.m)
      prefix == IF ev.m = "upsert_articles" THEN "" ELSE "sub_"
  IN /\ line.e = "log"
     /\ CASE ev.e = "ok" ->
               /\ line.m \in {"batch_ok", "sub_batch_ok"}
               /\ (line.m = "sub_batch_ok") = (prefix = "sub_")
               /\ line.n = Min(size, Len(ListOf(ev.m)) - ev.n)
          [] ev.e = "error" ->
               /\ line.m \in {"batch_error", "sub_batch_error"}
               /\ (line.m = "sub_batch_error") = (prefix = "sub_")
               /\ line.n = ev.n \div size + 1
          [] OTHER ->
               /\ line.m \in {"batch_exception", "sub_batch_exception"}
               /\ (line.m = "sub_batch_exception") = (prefix = "sub_")
               /\ line.n = ev.n \div size + 1

IsUpsertCall(ev) == ev.e = "call" /\ ev.m \in UpsertNames
IsUpsertAnswer(ev) == ev.e \in {"ok", "error", "throw"} /\ ev.m \in UpsertNames

\* C16: once a batch's upsert has returned, a line reporting its outcome is
\* in the log before any further upsert is issued; and an upsert is issued
\* only after every earlier upsert has returned.
C16_OutcomeLoggedBeforeNextBatch ==
  /\ \A a \in 1..Len(trace) :
       IsUpsertAnswer(trace[a]) =>
         \E p \in (a + 1)..Len(trace) :
           /\ IsOutcomeLogOf(trace[p], trace[a])
           /\ \A q \in (a + 1)..p : ~IsUpsertCall(trace[q])
  /\ \A j, k \in 1..Len(trace) :
       (j < k /\ IsUpsertCall(trace[j]) /\ IsUpsertCall(trace[k]))
         => \E p \in (j + 1)..(k - 1) :
              /\ IsUpsertAnswer(trace[p])
              /\ trace[p].m = trace[j].m
              /\ trace[p].n = trace[j].n

\* a batch whose upsert was rejected, followed by the upsert of the next
\* batch, in both loops
C16_Witness ==
  /\ \E a, c \in 1..Len(trace) :
       /\ a < c
       /\ trace[a] = Ev("throw", "upsert_articles", 0)
       /\ trace[c] = Ev("call", "upsert_articles", ArticleBatchSize)
  /\ \E a, c \in 1..Len(trace) :
       /\ a < c
       /\ trace[a] = Ev("error", "upsert_subscribers", 0)
       /\ trace[c] = Ev("call", "upsert_subscribers", SubscriberBatchSize)

\* first indices of the batches of m whose upsert returned one of `kinds`
AnsweredBatches(m, kinds) ==
  {trace[p].n : p \in {q \in 1..Len(trace) : trace[q].e \in kinds /\ trace[q].m = m}}

\* records in the batches of m attempted (answered) so far
RecordsAttempted(m) ==
  SumSizes(AnsweredBatches(m, {"ok", "error", "throw"}), ListOf(m), BatchSizeOf(m))

\* the two counters of a loop account for the answered batches: together
\* they hold the records of all of them, the batches that succeeded are in
\* the first and the batches that failed in the second
Conserved(m, sc, ec) ==
  /\ sc + ec = RecordsAttempted(m)
  /\ sc = SumSizes(AnsweredBatches(m, {"ok"}), ListOf(m), BatchSizeOf(m))
  /\ ec = SumSizes(AnsweredBatches(m, {"error", "throw"}), ListOf(m), BatchSizeOf(m))
  /\ AnsweredBatches(m, {"ok"}) \cap AnsweredBatches(m, {"error", "throw"}) = {}

\* C17: in both loops successCount + errorCount is the number of records
\* of the batches attempted so far, every batch having added its size to
\* exactly one of the two; when a summary line is logged the sum is the
\* number of source records of that kind.
C17_CountConservation ==
  /\ Conserved("upsert_articles", successCount, errorCount)
  /\ Conserved("upsert_subscribers", subSuccessCount, subErrorCount)
  /\ Logged("completed") => successCount + errorCount = Len(srcArticles)
  /\ Logged("sub_completed") => subSuccessCount + subErrorCount = Len(srcSubscribers)

\* both summaries logged after batches of both outcomes in both loops
C17_Witness ==
  /\ Logged("completed") /\ Logged("sub_completed")
  /\ successCount > 0 /\ errorCount > 0
  /\ subSuccessCount > 0 /\ subErrorCount > 0
  /\ Len(srcArticles) = MaxArticles

\* the batch of m whose upsert is awaited
BatchInFlight(m) == IF m = "upsert_articles" THEN ArticleBatch ELSE SubscriberBatch

\* the index of the batch of m whose upsert is awaited
IndexInFlight(m) == IF m = "upsert_articles" THEN i ELSE subI

\* positions in the trace of the upserts of m that include record k
BatchesHolding(m, k) ==
  {p \in 1..Len(trace) :
     /\ IsCall(trace[p], m)
     /\ trace[p].n < k
     /\ k <= trace[p].n + BatchSizeOf(m)}

\* the batch sent while the upsert of m is awaited is the next `size`
\* records of the list in order, or all that are left when fewer are left;
\* it is not empty; no record is sent in two batches, and by the summary
\* line every record has been sent in one
Partitioned(m, awaiting, summary) ==
  LET list == ListOf(m)
      size == BatchSizeOf(m)
      idx == IndexInFlight(m)
      batch == BatchInFlight(m)
  IN /\ pc = awaiting =>
          /\ idx % size = 0
          /\ Len(batch) >= 1
          /\ Len(batch) = size \/ (Len(batch) < size /\ idx + Len(batch) = Len(list))
          /\ \A k \in 1..Len(batch) : batch[k] = list[idx + k]
          /\ trace[Len(trace)] = Ev("call", m, idx)
     /\ \A k \in 1..Len(list) : Cardinality(BatchesHolding(m, k)) <= 1
     /\ Logged(summary) =>
          \A k \in 1..Len(list) : Cardinality(BatchesHolding(m, k)) = 1

\* the k-th record of the converted list comes from the k-th source document
InSourceOrder(list, docs) ==
  /\ Len(list) = Len(docs)
  /\ \A k \in 1..Len(docs) : list[k].mongo_id = Str(ToStringChars(docs[k]._id))

\* C18: the article batches are consecutive runs of 10 records of the
\* converted list (the last one of 1 to 10), the subscriber batches runs of
\* 20 (the last one of 1 to 20); the converted lists have one record per
\* source document; no batch is empty and every record is sent in exactly
\* one batch.
C18_BatchesPartitionTheList ==
  /\ Partitioned("upsert_articles", "awaitUpsert", "completed")
  /\ Partitioned("upsert_subscribers", "awaitSubUpsert", "sub_completed")
  /\ Logged("completed") => InSourceOrder(supabaseArticles, srcArticles)
  /\ Logged("sub_completed") => InSourceOrder(supabaseSubscribers, srcSubscribers)

\* the last, shorter batch of a list of more than two batches is awaited
C18_Witness ==
  /\ pc = "awaitUpsert"
  /\ i = 2 * ArticleBatchSize
  /\ Len(ArticleBatch) \in 1..(ArticleBatchSize - 1)

====
